---------------------------- MODULE Spec2Model ----------------------------
(***************************************************************************)
(* A model of lib/spack/spack/util/s3.py: the process-wide S3 client cache *)
(* (s3_client_cache), get_s3_session, get_mirror_s3_connection_info and    *)
(* _parse_s3_endpoint_url.                                                 *)
(*                                                                         *)
(* Python strings are sequences of one-character strings, so that          *)
(* str.startswith, "://".join and urlsplit's scheme scan are computed as   *)
(* the code computes them.  Python's None is the token None below, which   *)
(* is no string over any alphabet used here.  A dict is a function whose   *)
(* DOMAIN is the set of its keys.                                          *)
(***************************************************************************)
EXTENDS Integers, Sequences, FiniteSets, TLC

VARIABLES
    mirrors,          \* MirrorCollection(): configured mirror name -> Mirror
    environ,          \* os.environ.get("S3_ENDPOINT_URL")
    verify_ssl,       \* spack.config.get("config:verify_ssl")
    ambient,          \* whether boto3 discovers credentials outside the Session arguments
    py,               \* which urllib.parse.urlsplit the interpreter ships
    s3_client_cache,  \* (mirror name or None, method) -> client
    pc,               \* per caller: where it is in get_s3_session
    url_str,          \* per caller: local url_str
    method,           \* per caller: argument method
    name,             \* per caller: local name
    mirror,           \* per caller: local mirror
    s3_connection,    \* per caller: local s3_connection
    s3_client_args,   \* per caller: local s3_client_args
    client,           \* per caller: local client
    ret,              \* per caller: what the last finished call returned
    seen,             \* per caller: the mirror entry it matched and the environment it derived under
    checked,          \* per caller: Len(stores) when it did its cache lookup
    stores,           \* history: the cache stores, in order
    nclients,         \* history: number of clients constructed so far
    ncalls,           \* history: number of calls started so far
    arg,              \* the input of a function applied on its own
    res               \* its result

vars == << mirrors, environ, verify_ssl, ambient, py, s3_client_cache, pc, url_str,
           method, name, mirror, s3_connection, s3_client_args, client, ret, seen,
           checked, stores, nclients, ncalls, arg, res >>

-----------------------------------------------------------------------------
(* Bounds of the model. *)

MaxUrlLen == 2

MaxEndpointLen == 6

MaxCalls == 2

-----------------------------------------------------------------------------
(* Python values. *)

None == <<"None">>

Nothing == <<"Nothing">>

NoClient == [id |-> 0]

EmptyDict == [k \in {} |-> None]

Truthy(v) == v # None /\ v # <<>>

Or(a, b) == IF Truthy(a) THEN a ELSE b

StringsUpTo(chars, n) == UNION { [1..k -> chars] : k \in 0..n }

startswith(s, prefix) ==
    /\ Len(prefix) <= Len(s)
    /\ SubSeq(s, 1, Len(prefix)) = prefix

Methods == {"fetch", "push"}

Other(m) == IF m = "fetch" THEN "push" ELSE "fetch"

-----------------------------------------------------------------------------
(* urllib.parse.urlparse(url, scheme="").scheme.  The scheme scan differs  *)
(* between interpreters: up to 3.8 "host:80" is a path (what follows the   *)
(* colon is a port number) and "http" is taken without that test; 3.9 and  *)
(* 3.10 take any run of scheme characters before the first colon; from     *)
(* 3.11 the first character must also be a letter.                         *)

PyVersions == {"py36", "py39", "py311"}

Letters == {"h", "t", "p", "s"}

Digits == {"3"}

scheme_chars == Letters \cup Digits \cup {"+", "-", "."}

find(s, ch) ==
    IF \E i \in 1..Len(s) : s[i] = ch
    THEN CHOOSE i \in 1..Len(s) : s[i] = ch /\ \A j \in 1..(i - 1) : s[j] # ch
    ELSE 0

urlparse_scheme(url) ==
    LET i    == find(url, ":")
        head == SubSeq(url, 1, i - 1)
        rest == SubSeq(url, i + 1, Len(url))
    IN  IF i <= 1 THEN <<>>
        ELSE IF py = "py36" /\ head = <<"h", "t", "t", "p">> THEN head
        ELSE IF \E j \in 1..(i - 1) : url[j] \notin scheme_chars THEN <<>>
        ELSE IF py = "py36" /\ rest # <<>> /\ \A j \in 1..Len(rest) : rest[j] \in Digits
             THEN <<>>
        ELSE IF py = "py311" /\ url[1] \notin Letters THEN <<>>
        ELSE head

Https == <<"h", "t", "t", "p", "s">>

join(sep, a, b) == a \o sep \o b

_parse_s3_endpoint_url_http(endpoint_url) ==
    IF ~Truthy(urlparse_scheme(endpoint_url))
    THEN join(<<":", "/", "/">>, <<"h", "t", "t", "p">>, endpoint_url)
    ELSE endpoint_url

_parse_s3_endpoint_url(endpoint_url) ==
    IF ~Truthy(urlparse_scheme(endpoint_url))
    THEN join(<<":", "/", "/">>, Https, endpoint_url)
    ELSE endpoint_url

-----------------------------------------------------------------------------
(* spack.mirror.Mirror as get_s3_session and get_mirror_s3_connection_info *)
(* read it: two URLs and, per method, the credentials and the endpoint.    *)
(* The pseudo-entry of the no-match path is the empty dict, which is no    *)
(* Mirror.                                                                 *)

NoMirror == [class |-> "dict"]

isinstance_Mirror(m) == m.class = "Mirror"

Mirror(fetch, push, token, pair, profile, endpoint) ==
    [class |-> "Mirror", fetch_url |-> fetch, push_url |-> push,
     access_token |-> token, access_pair |-> pair,
     profile |-> profile, endpoint_url |-> endpoint]

get_mirror_url_fetch_only(m, meth) == m.fetch_url

get_mirror_url(m, meth) == IF meth = "fetch" THEN m.fetch_url ELSE m.push_url

get_access_token(m, meth) == m.access_token[meth]

get_access_pair(m, meth) == m.access_pair[meth]

get_profile(m, meth) == m.profile[meth]

get_endpoint_url(m, meth) == m.endpoint_url[meth]

-----------------------------------------------------------------------------
(* get_mirror_s3_connection_info(mirror, method): the Session arguments    *)
(* and the client arguments.  It reads the configuration and the           *)
(* environment as they are when it runs.                                   *)

token_entry(m, meth) ==
    LET access_token == get_access_token(m, meth)
    IN  IF Truthy(access_token) THEN "aws_session_token" :> access_token ELSE EmptyDict

pair_entries_unless_token(m, meth) ==
    LET access_pair == get_access_pair(m, meth)
    IN  IF ~Truthy(get_access_token(m, meth))
           /\ Truthy(access_pair) /\ Truthy(access_pair[1]) /\ Truthy(access_pair[2])
        THEN ("aws_access_key_id" :> access_pair[1])
                 @@ ("aws_secret_access_key" :> access_pair[2])
        ELSE EmptyDict

pair_entries(m, meth) ==
    LET access_pair == get_access_pair(m, meth)
    IN  IF Truthy(access_pair) /\ Truthy(access_pair[1]) /\ Truthy(access_pair[2])
        THEN ("aws_access_key_id" :> access_pair[1])
                 @@ ("aws_secret_access_key" :> access_pair[2])
        ELSE EmptyDict

profile_entry_unless_keys(m, meth) ==
    LET profile == get_profile(m, meth)
        access_pair == get_access_pair(m, meth)
    IN  IF Truthy(profile) /\ ~Truthy(get_access_token(m, meth)) /\ ~Truthy(access_pair)
        THEN "profile_name" :> profile
        ELSE EmptyDict

profile_entry(m, meth) ==
    LET profile == get_profile(m, meth)
    IN  IF Truthy(profile) THEN "profile_name" :> profile ELSE EmptyDict

resolve_endpoint_url_no_fallback(m, meth) ==
    IF isinstance_Mirror(m)
    THEN get_endpoint_url(m, meth)
    ELSE environ

resolve_endpoint_url(m, meth) ==
    IF isinstance_Mirror(m)
    THEN Or(get_endpoint_url(m, meth), environ)
    ELSE environ

endpoint_entry(endpoint_url) ==
    IF Truthy(endpoint_url)
    THEN "endpoint_url" :> _parse_s3_endpoint_url(endpoint_url)
    ELSE EmptyDict

get_mirror_s3_connection_info(m, meth) ==
    LET conn == IF isinstance_Mirror(m)
                THEN token_entry(m, meth) @@ pair_entries(m, meth) @@ profile_entry(m, meth)
                ELSE EmptyDict
        args == ("use_ssl" :> verify_ssl) @@ endpoint_entry(resolve_endpoint_url(m, meth))
    IN  << conn, args >>

-----------------------------------------------------------------------------
(* The mirror selection of get_s3_session.  max() returns the first of the *)
(* longest matches in the iteration order of MirrorCollection, which the   *)
(* configuration decides: any of the longest matches may be the one.       *)

matching(all_mirrors, url, meth) ==
    { n \in DOMAIN all_mirrors : startswith(url, get_mirror_url(all_mirrors[n], meth)) }

longest(all_mirrors, url, meth) ==
    LET cand == matching(all_mirrors, url, meth)
    IN  { n \in cand : \A o \in cand :
            Len(get_mirror_url(all_mirrors[n], meth)) >= Len(get_mirror_url(all_mirrors[o], meth)) }

select_mirror_unfiltered(all_mirrors, url, meth) ==
    IF DOMAIN all_mirrors = {}
    THEN { << None, NoMirror >> }
    ELSE { << n, all_mirrors[n] >> : n \in
             { n \in DOMAIN all_mirrors : \A o \in DOMAIN all_mirrors :
                 Len(get_mirror_url(all_mirrors[n], meth)) >= Len(get_mirror_url(all_mirrors[o], meth)) } }

select_mirror(all_mirrors, url, meth) ==
    IF matching(all_mirrors, url, meth) = {}
    THEN { << None, NoMirror >> }
    ELSE { << n, all_mirrors[n] >> : n \in longest(all_mirrors, url, meth) }

-----------------------------------------------------------------------------
(* boto3: the credentials a Session built from s3_connection exposes, and  *)
(* the client built from it with s3_client_args.                           *)

UNSIGNED == <<"UNSIGNED">>

get_credentials(conn) ==
    IF DOMAIN conn # {} THEN <<"session">>
    ELSE IF ambient THEN <<"ambient">>
    ELSE None

client_args_signed(conn, args) == args

client_args(conn, args) ==
    IF ~Truthy(get_credentials(conn)) THEN ("config" :> UNSIGNED) @@ args ELSE args

new_client(id, conn, args) ==
    [id |-> id, session |-> conn, credentials |-> get_credentials(conn), args |-> args]

-----------------------------------------------------------------------------
(* The state of a process. *)

Callers == {1, 2}

Names == { <<"a">>, <<"b">> }

NoMirrors == [n \in {} |-> NoMirror]

NoCache == [k \in {} |-> NoClient]

Unset == [m \in Methods |-> None]

Both(v) == [m \in Methods |-> v]

InitCallers ==
    /\ pc = [c \in Callers |-> "idle"]
    /\ url_str = [c \in Callers |-> <<>>]
    /\ method = [c \in Callers |-> "fetch"]
    /\ name = [c \in Callers |-> None]
    /\ mirror = [c \in Callers |-> NoMirror]
    /\ s3_connection = [c \in Callers |-> EmptyDict]
    /\ s3_client_args = [c \in Callers |-> EmptyDict]
    /\ client = [c \in Callers |-> NoClient]
    /\ ret = [c \in Callers |-> NoClient]
    /\ seen = [c \in Callers |-> <<NoMirror, Nothing>>]
    /\ checked = [c \in Callers |-> 0]
    /\ s3_client_cache = NoCache
    /\ stores = <<>>
    /\ nclients = 0
    /\ ncalls = 0

key(c) == << name[c], method[c] >>

-----------------------------------------------------------------------------
(* get_s3_session(url, method), one caller's steps. *)

Call(c, url, meth) ==
    /\ pc[c] \in {"idle", "done"}
    /\ ncalls < MaxCalls
    /\ pc' = [pc EXCEPT ![c] = "match"]
    /\ url_str' = [url_str EXCEPT ![c] = url]
    /\ method' = [method EXCEPT ![c] = meth]
    /\ name' = [name EXCEPT ![c] = None]
    /\ ret' = [ret EXCEPT ![c] = NoClient]
    /\ seen' = [seen EXCEPT ![c] = <<NoMirror, Nothing>>]
    /\ ncalls' = ncalls + 1
    /\ UNCHANGED << mirrors, environ, verify_ssl, ambient, py, s3_client_cache, mirror,
                    s3_connection, s3_client_args, client, checked, stores, nclients,
                    arg, res >>

Match(c) ==
    /\ pc[c] = "match"
    /\ \E sel \in select_mirror(mirrors, url_str[c], method[c]) :
          /\ name' = [name EXCEPT ![c] = sel[1]]
          /\ mirror' = [mirror EXCEPT ![c] = sel[2]]
          /\ seen' = [seen EXCEPT ![c] = <<sel[2], Nothing>>]
    /\ pc' = [pc EXCEPT ![c] = "lookup"]
    /\ UNCHANGED << mirrors, environ, verify_ssl, ambient, py, s3_client_cache, url_str,
                    method, s3_connection, s3_client_args, client, ret, checked, stores,
                    nclients, ncalls, arg, res >>

Return(c, value) ==
    /\ ret' = [ret EXCEPT ![c] = value]
    /\ pc' = [pc EXCEPT ![c] = "done"]
    /\ url_str' = [url_str EXCEPT ![c] = <<>>]
    /\ mirror' = [mirror EXCEPT ![c] = NoMirror]
    /\ s3_connection' = [s3_connection EXCEPT ![c] = EmptyDict]
    /\ s3_client_args' = [s3_client_args EXCEPT ![c] = EmptyDict]
    /\ client' = [client EXCEPT ![c] = NoClient]
    /\ checked' = [checked EXCEPT ![c] = 0]

CacheMiss(c) ==
    /\ pc' = [pc EXCEPT ![c] = "derive"]
    /\ checked' = [checked EXCEPT ![c] = Len(stores)]
    /\ UNCHANGED << url_str, mirror, s3_connection, s3_client_args, client, ret >>

CacheCheck_no_lookup(c) ==
    /\ pc[c] = "lookup"
    /\ CacheMiss(c)
    /\ UNCHANGED << mirrors, environ, verify_ssl, ambient, py, s3_client_cache, method,
                    name, seen, stores, nclients, ncalls, arg, res >>

CacheCheck(c) ==
    /\ pc[c] = "lookup"
    /\ IF key(c) \in DOMAIN s3_client_cache
       THEN Return(c, s3_client_cache[key(c)])
       ELSE CacheMiss(c)
    /\ UNCHANGED << mirrors, environ, verify_ssl, ambient, py, s3_client_cache, method,
                    name, seen, stores, nclients, ncalls, arg, res >>

Derive(c) ==
    /\ pc[c] = "derive"
    /\ LET info == get_mirror_s3_connection_info(mirror[c], method[c])
       IN  /\ s3_connection' = [s3_connection EXCEPT ![c] = info[1]]
           /\ s3_client_args' = [s3_client_args EXCEPT ![c] = info[2]]
    /\ seen' = [seen EXCEPT ![c] = <<seen[c][1], environ>>]
    /\ pc' = [pc EXCEPT ![c] = "construct"]
    /\ UNCHANGED << mirrors, environ, verify_ssl, ambient, py, s3_client_cache, url_str,
                    method, name, mirror, client, ret, checked, stores, nclients,
                    ncalls, arg, res >>

Construct(c) ==
    /\ pc[c] = "construct"
    /\ LET args == client_args(s3_connection[c], s3_client_args[c])
       IN  /\ s3_client_args' = [s3_client_args EXCEPT ![c] = args]
           /\ client' = [client EXCEPT ![c] = new_client(nclients + 1, s3_connection[c], args)]
    /\ nclients' = nclients + 1
    /\ pc' = [pc EXCEPT ![c] = "store"]
    /\ UNCHANGED << mirrors, environ, verify_ssl, ambient, py, s3_client_cache, url_str,
                    method, name, mirror, s3_connection, ret, seen, checked, stores,
                    ncalls, arg, res >>

Store_setdefault(c) ==
    /\ pc[c] = "store"
    /\ s3_client_cache' = s3_client_cache @@ (key(c) :> client[c])
    /\ stores' = Append(stores, [key |-> key(c), id |-> client[c].id, caller |-> c])
    /\ Return(c, client[c])
    /\ UNCHANGED << mirrors, environ, verify_ssl, ambient, py, method, name, seen,
                    nclients, ncalls, arg, res >>

Store(c) ==
    /\ pc[c] = "store"
    /\ s3_client_cache' = (key(c) :> client[c]) @@ s3_client_cache
    /\ stores' = Append(stores, [key |-> key(c), id |-> client[c].id, caller |-> c])
    /\ Return(c, client[c])
    /\ UNCHANGED << mirrors, environ, verify_ssl, ambient, py, method, name, seen,
                    nclients, ncalls, arg, res >>

-----------------------------------------------------------------------------
(* The configuration changes under a running process: spack.config can be  *)
(* edited and os.environ set between any two steps of a caller.            *)

UpdateMirror(n, m) ==
    /\ IF n \in DOMAIN mirrors THEN mirrors[n] # m ELSE TRUE
    /\ mirrors' = (n :> m) @@ mirrors
    /\ UNCHANGED << environ, verify_ssl, ambient, py, s3_client_cache, pc, url_str, method,
                    name, mirror, s3_connection, s3_client_args, client, ret, seen,
                    checked, stores, nclients, ncalls, arg, res >>

SetEnviron(e) ==
    /\ e # environ
    /\ environ' = e
    /\ UNCHANGED << mirrors, verify_ssl, ambient, py, s3_client_cache, pc, url_str, method,
                    name, mirror, s3_connection, s3_client_args, client, ret, seen,
                    checked, stores, nclients, ncalls, arg, res >>

-----------------------------------------------------------------------------
(* Spec: concurrent callers of get_s3_session under configuration changes. *)
(* One mirror, a, is configured; its entry and S3_ENDPOINT_URL change at   *)
(* any time.  verify_ssl and the interpreter stay as they are for the      *)
(* process (SpecInfo and SpecEndpoint range over them).                    *)

PublicMirror == Mirror(<<"x">>, <<"x">>, Unset, Unset, Unset, Unset)

KeyedMirror ==
    Mirror(<<"x">>, <<"x">>, Both(<<"t">>), Both(<< <<"k">>, <<"s">> >>), Unset, Both(<<"h">>))

SubMirror == Mirror(<<"x", "y">>, <<"x">>, Unset, Unset, Both(<<"p">>), Unset)

MirrorChoices == { PublicMirror, KeyedMirror, SubMirror }

RaceChoices == { PublicMirror, KeyedMirror }

TargetUrls == { <<"x">>, <<"x", "y">> }

RaceUrls == { <<"x", "y">>, <<"y">> }

Environs == { None, <<"h">> }

Init ==
    /\ InitCallers
    /\ mirrors = <<"a">> :> PublicMirror
    /\ environ = None
    /\ verify_ssl = TRUE
    /\ ambient \in BOOLEAN
    /\ py = "py311"
    /\ arg = Nothing
    /\ res = Nothing

Step(c, urls) ==
    \/ \E url \in urls, meth \in Methods : Call(c, url, meth)
    \/ Match(c)
    \/ CacheCheck(c)
    \/ Derive(c)
    \/ Construct(c)
    \/ Store(c)

Reconfigure(names, choices) ==
    \/ \E n \in names, m \in choices : UpdateMirror(n, m)
    \/ \E e \in Environs : SetEnviron(e)

Next ==
    \/ \E c \in Callers : Step(c, RaceUrls)
    \/ Reconfigure({<<"a">>}, RaceChoices)

Spec == Init /\ [][Next]_vars

(* SpecSeq: the calls run one at a time (a single caller), with            *)
(* configuration changes between and during them.                          *)

InitSeq ==
    /\ InitCallers
    /\ mirrors \in { NoMirrors, <<"a">> :> PublicMirror }
    /\ environ = None
    /\ verify_ssl = TRUE
    /\ ambient \in BOOLEAN
    /\ py = "py311"
    /\ arg = Nothing
    /\ res = Nothing

NextSeq ==
    \/ Step(1, TargetUrls)
    \/ Reconfigure(Names, MirrorChoices)

SpecSeq == InitSeq /\ [][NextSeq]_vars

-----------------------------------------------------------------------------
(* SpecSelect: the mirror selection of get_s3_session, for every           *)
(* configuration of up to two mirrors whose URLs are the non-empty strings *)
(* over UrlChars of at most MaxUrlLen characters.  Every target starts     *)
(* with "x": the mirror URLs that start with "y" are the ones that cannot  *)
(* match.                                                                  *)

UrlChars == {"x", "y"}

SelectUrls == StringsUpTo(UrlChars, MaxUrlLen) \ { <<>> }

SelectTargets == { u \in StringsUpTo(UrlChars, MaxUrlLen + 1) : Len(u) >= 1 /\ u[1] = "x" }

SelectMirrors == { Mirror(f, p, Unset, Unset, Unset, Unset) : f \in SelectUrls, p \in SelectUrls }

SelectConfigs == UNION { [D -> SelectMirrors] : D \in { {}, { <<"a">> }, Names } }

InitSelect ==
    /\ InitCallers
    /\ mirrors \in SelectConfigs
    /\ environ = None
    /\ verify_ssl = TRUE
    /\ ambient = FALSE
    /\ py = "py311"
    /\ arg = Nothing
    /\ res = Nothing

NextSelect ==
    \/ \E url \in SelectTargets, meth \in Methods : Call(1, url, meth)
    \/ Match(1)

SpecSelect == InitSelect /\ [][NextSelect]_vars

-----------------------------------------------------------------------------
(* SpecInfo: get_mirror_s3_connection_info applied to every mirror entry   *)
(* of InfoMirrors and to the empty dict, for both methods, under every     *)
(* environment and verify_ssl setting.  The entry's values for the method  *)
(* asked range over all combinations; its values for the other method are  *)
(* either all unset or all set to values that occur nowhere else.          *)

Tokens == { None, <<>>, <<"t">> }

Pairs == { None } \cup { << i, k >> : i \in { <<>>, <<"i">> }, k \in { <<>>, <<"k">> } }

Profiles == { None, <<>>, <<"p">> }

Endpoints == { None, <<>>, <<"h">>, <<"s", ":", "/", "/", "h">> }

OtherSide ==
    { [token |-> None, pair |-> None, profile |-> None, endpoint |-> None],
      [token |-> <<"T">>, pair |-> << <<"I">>, <<"K">> >>, profile |-> <<"P">>,
       endpoint |-> <<"s", ":", "/", "/", "o">>] }

Per(m, v, w) == (m :> v) @@ (Other(m) :> w)

InfoMirrors ==
    { Mirror(<<"x">>, <<"x">>, Per(m, t, o.token), Per(m, a, o.pair),
             Per(m, p, o.profile), Per(m, e, o.endpoint)) :
        m \in Methods, t \in Tokens, a \in Pairs, p \in Profiles, e \in Endpoints,
        o \in OtherSide }

InitInfo ==
    /\ InitCallers
    /\ mirrors = NoMirrors
    /\ environ \in Endpoints
    /\ verify_ssl \in BOOLEAN
    /\ ambient = FALSE
    /\ py \in PyVersions
    /\ arg \in [mirror : InfoMirrors \cup { NoMirror }, method : Methods]
    /\ res = Nothing

ApplyInfo ==
    /\ res = Nothing
    /\ res' = get_mirror_s3_connection_info(arg.mirror, arg.method)
    /\ UNCHANGED << mirrors, environ, verify_ssl, ambient, py, s3_client_cache, pc, url_str,
                    method, name, mirror, s3_connection, s3_client_args, client, ret, seen,
                    checked, stores, nclients, ncalls, arg >>

SpecInfo == InitInfo /\ [][ApplyInfo]_vars

-----------------------------------------------------------------------------
(* SpecEndpoint: _parse_s3_endpoint_url applied to every string over       *)
(* EndpointChars of at most MaxEndpointLen characters, under each          *)
(* interpreter's urlsplit.                                                 *)

EndpointChars == {"h", "t", "p", "3", ":", "/"}

InitEndpoint ==
    /\ InitCallers
    /\ mirrors = NoMirrors
    /\ environ = None
    /\ verify_ssl = TRUE
    /\ ambient = FALSE
    /\ py \in PyVersions
    /\ arg \in StringsUpTo(EndpointChars, MaxEndpointLen)
    /\ res = Nothing

ApplyParse ==
    /\ res = Nothing
    /\ res' = _parse_s3_endpoint_url(arg)
    /\ UNCHANGED << mirrors, environ, verify_ssl, ambient, py, s3_client_cache, pc, url_str,
                    method, name, mirror, s3_connection, s3_client_args, client, ret, seen,
                    checked, stores, nclients, ncalls, arg >>

SpecEndpoint == InitEndpoint /\ [][ApplyParse]_vars

-----------------------------------------------------------------------------
(* The claims.  Their formulas state each property from the outside: a     *)
(* prefix is spelled out by its characters, a configured value by its      *)
(* truth value, a dict by its keys.                                        *)

IsPrefixOf(p, u) == \E k \in 0..Len(u) : Len(p) = k /\ \A i \in 1..k : p[i] = u[i]

UrlForIntent(m, meth) == IF meth = "push" THEN m.push_url ELSE m.fetch_url

Matches(meth, url) ==
    { n \in DOMAIN mirrors : IsPrefixOf(UrlForIntent(mirrors[n], meth), url) }

Configured(v) == v # None /\ Len(v) > 0

HasKey(d, k) == k \in DOMAIN d

HttpsPrefix == <<"h", "t", "t", "p", "s", ":", "/", "/">>

(* C1: whenever some configured mirror's URL for the intent is a prefix of *)
(* the target URL, the mirror get_s3_session selects is one of them, its   *)
(* URL for the intent is at least as long as that of every other match,    *)
(* and the entry it holds is that mirror's; a mirror that matches only by  *)
(* its URL for the other intent is never selected.  With a at "x" and b at *)
(* "xy", the target "xyx" fetched selects b.                               *)
C1_LongestPrefix ==
    \A c \in Callers : pc[c] = "lookup" =>
        LET cand == Matches(method[c], url_str[c])
        IN  /\ cand # {} =>
                /\ name[c] \in cand
                /\ mirror[c] = mirrors[name[c]]
                /\ \A o \in cand :
                      Len(UrlForIntent(mirrors[name[c]], method[c]))
                          >= Len(UrlForIntent(mirrors[o], method[c]))
            /\ ( /\ DOMAIN mirrors = Names
                 /\ mirrors[<<"a">>].fetch_url = <<"x">>
                 /\ mirrors[<<"b">>].fetch_url = <<"x", "y">>
                 /\ url_str[c] = <<"x", "y", "x">>
                 /\ method[c] = "fetch" ) => name[c] = <<"b">>

C1_Witness ==
    /\ pc[1] = "lookup"
    /\ method[1] = "push"
    /\ url_str[1] = <<"x", "y", "x">>
    /\ DOMAIN mirrors = Names
    /\ mirrors[<<"a">>].push_url = <<"x">>
    /\ mirrors[<<"a">>].fetch_url = <<"y">>
    /\ mirrors[<<"b">>].push_url = <<"x", "y">>
    /\ mirrors[<<"b">>].fetch_url = <<"x">>
    /\ name[1] = <<"b">>

(* C5 as claimed: for a mirror entry with an access token configured for   *)
(* the intent, the Session arguments hold the session token and neither    *)
(* the access key id nor the secret key; the key pair appears only with no *)
(* token configured and both its parts non-empty.                          *)
C5_TokenExcludesPair ==
    (res # Nothing /\ arg.mirror # NoMirror) =>
        LET conn  == res[1]
            token == arg.mirror.access_token[arg.method]
            pair  == arg.mirror.access_pair[arg.method]
        IN  /\ Configured(token) =>
                /\ HasKey(conn, "aws_session_token")
                /\ ~HasKey(conn, "aws_access_key_id")
                /\ ~HasKey(conn, "aws_secret_access_key")
            /\ (HasKey(conn, "aws_access_key_id") \/ HasKey(conn, "aws_secret_access_key")) =>
                /\ ~Configured(token)
                /\ pair # None /\ Configured(pair[1]) /\ Configured(pair[2])

(* C5 as amended: the token and the key pair are independent.  The session *)
(* token is in the Session arguments exactly when a non-empty token is     *)
(* configured for the intent, and the access key id and secret key are     *)
(* there exactly when a pair with both parts non-empty is configured for   *)
(* the intent, whether or not a token is configured too.                   *)
C5_TokenAndPair ==
    (res # Nothing /\ arg.mirror # NoMirror) =>
        LET conn  == res[1]
            token == arg.mirror.access_token[arg.method]
            pair  == arg.mirror.access_pair[arg.method]
            whole == pair # None /\ Configured(pair[1]) /\ Configured(pair[2])
        IN  /\ HasKey(conn, "aws_session_token") <=> Configured(token)
            /\ HasKey(conn, "aws_session_token") => conn["aws_session_token"] = token
            /\ HasKey(conn, "aws_access_key_id") <=> whole
            /\ HasKey(conn, "aws_secret_access_key") <=> whole
            /\ whole => /\ conn["aws_access_key_id"] = pair[1]
                        /\ conn["aws_secret_access_key"] = pair[2]

C5_Witness ==
    /\ res # Nothing
    /\ arg.mirror # NoMirror
    /\ arg.mirror.access_token[arg.method] = <<"t">>
    /\ arg.mirror.access_pair[arg.method] = << <<"i">>, <<"k">> >>
    /\ {"aws_session_token", "aws_access_key_id", "aws_secret_access_key"} \subseteq DOMAIN res[1]

(* C6: for a mirror entry the Session arguments hold the profile name      *)
(* exactly when a profile is configured for the intent, whatever token or  *)
(* key pair is configured; with only a profile configured (no token, and   *)
(* no pair or a pair with an empty part) they hold the profile and none of *)
(* the session token, access key id and secret key.                        *)
C6_ProfileIndependent ==
    (res # Nothing /\ arg.mirror # NoMirror) =>
        LET conn    == res[1]
            token   == arg.mirror.access_token[arg.method]
            pair    == arg.mirror.access_pair[arg.method]
            profile == arg.mirror.profile[arg.method]
            whole   == pair # None /\ Configured(pair[1]) /\ Configured(pair[2])
        IN  /\ HasKey(conn, "profile_name") <=> Configured(profile)
            /\ HasKey(conn, "profile_name") => conn["profile_name"] = profile
            /\ (Configured(profile) /\ ~Configured(token) /\ ~whole) =>
                  DOMAIN conn = {"profile_name"}

C6_Witness ==
    /\ res # Nothing
    /\ arg.mirror # NoMirror
    /\ arg.mirror.access_token[arg.method] = None
    /\ arg.mirror.access_pair[arg.method] = << <<"i">>, <<>> >>
    /\ arg.mirror.profile[arg.method] = <<"p">>
    /\ arg.mirror.profile[Other(arg.method)] = None
    /\ DOMAIN res[1] = {"profile_name"}

(* C8: _parse_s3_endpoint_url returns an endpoint in which urlparse finds  *)
(* no scheme with "https://" before it, and an endpoint in which it finds  *)
(* one unchanged.  An endpoint without a colon has no scheme; one that     *)
(* starts with letters followed by "://" has one.  Normalising the result  *)
(* again changes nothing.                                                  *)
C8_EndpointNormalized ==
    res # Nothing =>
        /\ urlparse_scheme(arg) = <<>> => res = HttpsPrefix \o arg
        /\ urlparse_scheme(arg) # <<>> => res = arg
        /\ (\A i \in 1..Len(arg) : arg[i] # ":") => res = HttpsPrefix \o arg
        /\ (\E i \in 2..(Len(arg) - 2) :
                /\ \A j \in 1..(i - 1) : arg[j] \in Letters
                /\ arg[i] = ":" /\ arg[i + 1] = "/" /\ arg[i + 2] = "/") => res = arg
        /\ _parse_s3_endpoint_url(res) = res

C8_Witness ==
    /\ arg = <<"h", "3">>
    /\ res = <<"h", "t", "t", "p", "s", ":", "/", "/", "h", "3">>

(* C10: the endpoint is the mirror entry's endpoint for the intent when a  *)
(* non-empty one is set and the value of S3_ENDPOINT_URL otherwise, and    *)
(* the value of S3_ENDPOINT_URL for the empty dict; the client arguments   *)
(* hold no endpoint_url when that endpoint is unset or empty and its       *)
(* normalised form otherwise; they hold use_ssl in every case.             *)
C10_EndpointResolution ==
    res # Nothing =>
        LET args == res[2]
            own  == IF arg.mirror # NoMirror THEN arg.mirror.endpoint_url[arg.method] ELSE None
            ep   == IF Configured(own) THEN own ELSE environ
        IN  /\ HasKey(args, "use_ssl") /\ args["use_ssl"] = verify_ssl
            /\ DOMAIN args \subseteq {"use_ssl", "endpoint_url"}
            /\ HasKey(args, "endpoint_url") <=> Configured(ep)
            /\ Configured(ep) =>
                  args["endpoint_url"] =
                      (IF urlparse_scheme(ep) = <<>> THEN HttpsPrefix \o ep ELSE ep)

C10_Witness ==
    /\ res # Nothing
    /\ arg.mirror # NoMirror
    /\ arg.mirror.endpoint_url[arg.method] = <<>>
    /\ arg.mirror.endpoint_url[Other(arg.method)] # None
    /\ environ = <<"h">>
    /\ res[2]["endpoint_url"] = <<"h", "t", "t", "p", "s", ":", "/", "/", "h">>

-----------------------------------------------------------------------------
(* The claims about the cache. *)

StoresOf(k) == { i \in 1..Len(stores) : stores[i].key = k }

LastStoreOf(k) == CHOOSE i \in StoresOf(k) : \A j \in StoresOf(k) : j <= i

InFlight(c) == pc[c] \in {"derive", "construct", "store"}

IsUnsigned(cl) == HasKey(cl.args, "config") /\ cl.args["config"] = UNSIGNED

Equivalent(a, b) ==
    /\ a.session = b.session
    /\ a.credentials = b.credentials
    /\ a.args = b.args

C2_Entries ==
    /\ DOMAIN s3_client_cache = { stores[i].key : i \in 1..Len(stores) }
    /\ \A k \in DOMAIN s3_client_cache :
          /\ Cardinality(StoresOf(k)) = 1
          /\ s3_client_cache[k].id = stores[LastStoreOf(k)].id
    /\ nclients = Len(stores) + Cardinality({ c \in Callers : pc[c] = "store" })
    /\ \A c \in Callers : pc[c] = "done" =>
          /\ key(c) \in DOMAIN s3_client_cache
          /\ ret[c] = s3_client_cache[key(c)]

C2_Hit ==
    \A c \in Callers :
        (pc[c] = "lookup" /\ pc'[c] # "lookup" /\ key(c) \in DOMAIN s3_client_cache) =>
            /\ pc'[c] = "done"
            /\ ret'[c] = s3_client_cache[key(c)]
            /\ s3_client_cache' = s3_client_cache
            /\ nclients' = nclients
            /\ s3_connection' = s3_connection
            /\ s3_client_args' = s3_client_args

C2_Kept ==
    \A k \in DOMAIN s3_client_cache :
        k \in DOMAIN s3_client_cache' /\ s3_client_cache'[k] = s3_client_cache[k]

(* C2: with the calls run one at a time, under any configuration changes,  *)
(* a call whose key is in the cache returns the client the first call for  *)
(* that key stored, derives no parameters, constructs no client and leaves *)
(* the cache as it is; an entry is stored once and is never removed or     *)
(* replaced.                                                               *)
C2_CacheHit == []C2_Entries /\ [][C2_Hit /\ C2_Kept]_vars

C2_Witness ==
    /\ pc[1] = "done"
    /\ ncalls = 2
    /\ nclients = 1
    /\ name[1] = <<"a">>
    /\ mirrors[<<"a">>] = KeyedMirror
    /\ ret[1].session = EmptyDict
    /\ ret[1].id = 1

(* C3 as claimed: once the cache holds a client for a key, no step         *)
(* constructs another client for that key or changes that entry.           *)
C3_AtMostOnePerKey ==
    [][ \A k \in DOMAIN s3_client_cache :
          /\ k \in DOMAIN s3_client_cache' /\ s3_client_cache'[k] = s3_client_cache[k]
          /\ ~ \E c \in Callers : key(c) = k /\ pc[c] = "construct" /\ pc'[c] = "store" ]_vars

(* C3 as amended: the cache holds one client per key stored so far, the    *)
(* one stored last, and no entry is removed.  A caller that is deriving,   *)
(* constructing or storing did its cache lookup before every store for its *)
(* key, and no caller stores two clients for one key: a key's entry is     *)
(* constructed and overwritten only by the callers whose lookups preceded  *)
(* its first store, at most once by each.                                  *)
C3_OnePerCaller ==
    /\ DOMAIN s3_client_cache = { stores[i].key : i \in 1..Len(stores) }
    /\ \A k \in DOMAIN s3_client_cache :
          s3_client_cache[k].id = stores[LastStoreOf(k)].id
    /\ \A i, j \in 1..Len(stores) :
          (i # j /\ stores[i].key = stores[j].key) => stores[i].caller # stores[j].caller
    /\ \A c \in Callers : InFlight(c) =>
          \A i \in StoresOf(key(c)) : i > checked[c]

C3_Witness ==
    /\ Len(stores) = 2
    /\ stores[1].key = stores[2].key
    /\ s3_client_cache[stores[1].key].id = stores[2].id
    /\ stores[1].id # stores[2].id

NoMatch(c) == Matches(method[c], url_str[c]) = {}

C4_Matched ==
    \A c \in Callers :
        (pc[c] = "match" /\ pc'[c] = "lookup" /\ NoMatch(c)) =>
            /\ name'[c] = None
            /\ mirror'[c] = NoMirror

C4_Anonymous ==
    \A c \in Callers : name[c] = None =>
        /\ pc[c] \in {"lookup", "derive", "construct", "store"} =>
              ENABLED (CacheCheck(c) \/ Derive(c) \/ Construct(c) \/ Store(c))
        /\ pc[c] \in {"construct", "store"} => DOMAIN s3_connection[c] = {}
        /\ pc[c] = "store" => client[c].session = EmptyDict
        /\ pc[c] = "done" =>
              /\ ret[c] # NoClient
              /\ DOMAIN ret[c].session = {}
              /\ << None, method[c] >> \in DOMAIN s3_client_cache
              /\ s3_client_cache[<< None, method[c] >>] = ret[c]

(* C4: when no configured mirror's URL for the intent is a prefix of the   *)
(* target URL, also with no mirror configured, the call goes on with no    *)
(* name and the empty dict, each of its steps can be taken, the Session    *)
(* arguments hold no token, key pair or profile, and the call returns a    *)
(* client that is in the cache under (None, intent).                       *)
C4_NoMatch == []C4_Anonymous /\ [][C4_Matched]_vars

C4_Witness ==
    /\ pc[1] = "done"
    /\ name[1] = None
    /\ method[1] = "fetch"
    /\ DOMAIN mirrors = Names
    /\ stores = << [key |-> << None, "fetch" >>, id |-> 1, caller |-> 1] >>
    /\ ret[1].id = 1

(* C7: a client constructed from Session arguments that hold no token, key *)
(* pair or profile, with no ambient credentials to discover, is unsigned,  *)
(* on the matched-mirror path and on the no-match path alike; every client *)
(* constructed or cached has session credentials or is unsigned.           *)
C7_UnsignedWithoutCredentials ==
    \A cl \in { s3_client_cache[k] : k \in DOMAIN s3_client_cache }
              \cup { client[c] : c \in { d \in Callers : pc[d] = "store" } } :
        /\ (DOMAIN cl.session = {} /\ ~ambient) => IsUnsigned(cl)
        /\ cl.credentials # None \/ IsUnsigned(cl)

C7_Witness ==
    /\ ~ambient
    /\ << <<"a">>, "fetch" >> \in DOMAIN s3_client_cache
    /\ << None, "fetch" >> \in DOMAIN s3_client_cache
    /\ IsUnsigned(s3_client_cache[<< <<"a">>, "fetch" >>])
    /\ IsUnsigned(s3_client_cache[<< None, "fetch" >>])

Raced(c, d) ==
    /\ c # d
    /\ pc[c] = "done" /\ pc[d] = "done"
    /\ key(c) = key(d)
    /\ ret[c].id # ret[d].id

(* C9 as claimed: two callers that both constructed a client for one key,  *)
(* under any changes of the mirror configuration between their steps (the  *)
(* environment being the same for both), both return a client, the cache   *)
(* holds one of the two under the key, and the two clients have the same   *)
(* session credentials and client options.                                 *)
C9_RaceEquivalent ==
    \A c, d \in Callers : (Raced(c, d) /\ seen[c][2] = seen[d][2]) =>
        /\ key(c) \in DOMAIN s3_client_cache
        /\ s3_client_cache[key(c)] \in { ret[c], ret[d] }
        /\ Equivalent(ret[c], ret[d])

(* C9 as amended: both callers return a client, the cache holds under the  *)
(* key the one of the two that was stored last, and the two clients are    *)
(* equivalent when both callers matched the same mirror entry and derived  *)
(* under the same environment; after a change of the mirror's entry or of  *)
(* S3_ENDPOINT_URL between their steps the two clients can differ.         *)
C9_RaceLastStoreWins ==
    \A c, d \in Callers : Raced(c, d) =>
        /\ ret[c] # NoClient /\ ret[d] # NoClient
        /\ key(c) \in DOMAIN s3_client_cache
        /\ s3_client_cache[key(c)] \in { ret[c], ret[d] }
        /\ s3_client_cache[key(c)].id = stores[LastStoreOf(key(c))].id
        /\ seen[c] = seen[d] => Equivalent(ret[c], ret[d])

C9_Witness ==
    /\ Raced(1, 2)
    /\ seen[1] = seen[2]
    /\ seen[1][1] = PublicMirror
    /\ ret[1].id = 1 /\ ret[2].id = 2
    /\ stores[1].caller = 2 /\ stores[2].caller = 1
    /\ s3_client_cache[key(1)] = ret[1]

=============================================================================
